---- MODULE Spec2Model ----
(***************************************************************************)
(* Model of the backtesting engine (backtesting/backtest.py), the futures  *)
(* pair strategy (strategy.py), the standard-deviation pair signal         *)
(* (signal.py) and the rolling tracker (tracker.py).                       *)
(*                                                                         *)
(* Numbers.  The program computes with floats that may be NaN.  A number   *)
(* is modelled as an exact fraction <<num, den>> in lowest terms with      *)
(* den > 0, and NaN as <<0, 0>>.  Arithmetic propagates NaN and every      *)
(* comparison with NaN is false, as in IEEE-754 / numpy.  Rounding of      *)
(* floats is not modelled.                                                 *)
(***************************************************************************)
EXTENDS Integers, Sequences, FiniteSets, TLC

\* ------------------------------------------------------------------ bounds
MaxDays == 5
MaxN == 2
MaxTable == 3

\* ------------------------------------------------------------- arithmetic
NaN == <<0, 0>>

Abs(i) == IF i < 0 THEN -i ELSE i

RECURSIVE GCD(_, _)
GCD(a, b) == IF b = 0 THEN a ELSE GCD(b, a % b)

Norm(num, den) ==
    IF den = 0 THEN NaN
    ELSE LET s == IF den < 0 THEN -1 ELSE 1
             g == GCD(Abs(num), Abs(den))
         IN  <<(s * num) \div g, (s * den) \div g>>

R(i) == <<i, 1>>
Zero == R(0)
One == R(1)

IsNaN(x) == x[2] = 0

Add(x, y) == IF IsNaN(x) \/ IsNaN(y) THEN NaN
             ELSE Norm(x[1] * y[2] + y[1] * x[2], x[2] * y[2])
Neg(x) == IF IsNaN(x) THEN NaN ELSE <<-x[1], x[2]>>
Sub(x, y) == Add(x, Neg(y))
Mul(x, y) == IF IsNaN(x) \/ IsNaN(y) THEN NaN
             ELSE Norm(x[1] * y[1], x[2] * y[2])
\* numpy float division: x/0 is not a number the model represents; every
\* division of the program is guarded against a zero divisor (see DayReturn,
\* TrackerDayReturn) or has a positive divisor (max_value).
Div(x, y) == IF IsNaN(x) \/ IsNaN(y) THEN NaN
             ELSE Norm(x[1] * y[2], x[2] * y[1])
AbsR(x) == IF IsNaN(x) THEN NaN ELSE <<Abs(x[1]), x[2]>>

Lt(x, y) == ~IsNaN(x) /\ ~IsNaN(y) /\ x[1] * y[2] < y[1] * x[2]
Leq(x, y) == ~IsNaN(x) /\ ~IsNaN(y) /\ x[1] * y[2] <= y[1] * x[2]
Eq(x, y) == ~IsNaN(x) /\ ~IsNaN(y) /\ x = y

\* Python's max(a, b): b if b > a, else a.
Max(a, b) == IF Lt(a, b) THEN b ELSE a

RECURSIVE SumSeq(_)
SumSeq(s) == IF s = <<>> THEN Zero ELSE Add(Head(s), SumSeq(Tail(s)))

\* ---------------------------------------------------------------- inputs
\* A price is NaN (missing) or one of the values below; the tracked asset
\* takes three values so that it can rise, or fall, two days in a row.
PriceValuesA == {1, 2}
PriceValuesB == {1, 2, 3}
Prices(values) == {NaN} \cup {R(v) : v \in values}

\* One row of dataset.df: the prices of asset_a (traded) and asset_b (tracked).
Rows == [A : Prices(PriceValuesA), B : Prices(PriceValuesB)]

\* Defaults of the keyword arguments.
DefaultSize == 10
DefaultC == <<1, 10>>

\* The keyword bag handed to Backtest, FuturesStdPairStrategy and
\* StdDevPairSignal.  n_days, std_rise and std_drop have no default.
Thresholds == {R(3)}
Kwargs == [n_days : 1..MaxN, std_rise : Thresholds, std_drop : Thresholds,
           long_size : {R(DefaultSize)}, short_size : {R(DefaultSize)},
           C : {DefaultC}]

\* Initial cash: small enough that an order can be unaffordable.
InitialCash == {R(35)}

\* The strategy argument of Backtest: a recognised name, or an instance of
\* FuturesStdPairStrategy built by the caller.
StrategyNames == {"future_pairs_strategy"}
StrategyArgs == StrategyNames \cup {"instance"}

\* strategy.lower(), on the names the model passes.
Lower(name) ==
    IF name = "FuturePairsStrategy" THEN "futurepairsstrategy" ELSE name

\* isinstance(strategy, Strategy), or a name one of the match's cases takes.
Recognised(arg) ==
    \/ arg = "instance"
    \/ Lower(arg) \in {"future_pairs_strategy", "futurepairsstrategy"}

\* Strategy arguments with a name no case takes, and initial cash with zero.
ConfigArgs == {"future_pairs_strategy", "FuturePairsStrategy", "momentum",
               "instance"}
ConfigCash == {Zero, R(35)}

\* An order: the second component of the strategy's result.
Close == [kind |-> "close", size |-> Zero]
Size(x) == [kind |-> "size", size |-> x]

\* --------------------------------------------------------------- Tracker
\* Variant: statistics start undefined.
TrackerInitNaN(n) ==
    [prev_date |-> 0, prev_price |-> Zero, day_return |-> Zero, n |-> n,
     price_window |-> <<>>, moving_average |-> NaN, std |-> NaN]

TrackerInit(n) ==
    [prev_date |-> 0, prev_price |-> Zero, day_return |-> Zero, n |-> n,
     price_window |-> <<>>, moving_average |-> Zero, std |-> Zero]

\* list.pop(): removes the last element.
ListPop(w) == SubSeq(w, 1, Len(w) - 1)

AnyNaN(w) == \E i \in 1..Len(w) : IsNaN(w[i])

Mean(w) == Div(SumSeq(w), R(Len(w)))

\* The squared errors about the moving average m, averaged over the length.
VarianceAbout(w, m) ==
    Div(SumSeq([k \in 1..Len(w) |-> Mul(Sub(w[k], m), Sub(w[k], m))]),
        R(Len(w)))

\* Population variance: sum of squared errors over the length.
Variance(w) == VarianceAbout(w, Mean(w))

TrackerDayReturn(prev_price, price) ==
    IF Eq(prev_price, Zero) THEN Zero
    ELSE IF ~IsNaN(price) /\ ~IsNaN(prev_price)
         THEN Sub(Div(price, prev_price), One)
         ELSE NaN

\* The statistics path of Tracker.__call__: the window w is what is left
\* after the pop.
Statistics(t, w, date, price) ==
    [t EXCEPT
       !.price_window = w,
       !.moving_average = IF AnyNaN(w) THEN NaN ELSE Mean(w),
       !.std = IF AnyNaN(w) THEN NaN ELSE Variance(w),
       !.day_return = TrackerDayReturn(t.prev_price, price),
       !.prev_price = price,
       !.prev_date = date]

\* Variant: the window is cut one price later.
AppendedLate(t, w, date, price) ==
    IF Len(w) > t.n + 1
    THEN Statistics(t, ListPop(w), date, price)
    ELSE [t EXCEPT !.price_window = w]

\* Tracker.__call__ once the price is appended.
Appended(t, w, date, price) ==
    IF Len(w) > t.n
    THEN Statistics(t, ListPop(w), date, price)
    ELSE [t EXCEPT !.price_window = w]

\* Tracker.__call__(date, price): the tracker after the call.
TrackerCall(t, date, price) == Appended(t, Append(t.price_window, price), date, price)

\* ------------------------------------------------------ StdDevPairSignal
\* Variant: the rise check has the last word.
ThresholdRiseLast(t, kw) ==
    IF Lt(Mul(t.std, kw.std_rise), t.day_return) THEN One
    ELSE IF Lt(t.day_return, Mul(Neg(t.std), kw.std_drop)) THEN Neg(One)
    ELSE Zero

\* The signal once the tracker has been updated: the rise check, then the
\* drop check, which overwrites.
Threshold(t, kw) ==
    IF Lt(t.day_return, Mul(Neg(t.std), kw.std_drop)) THEN Neg(One)
    ELSE IF Lt(Mul(t.std, kw.std_rise), t.day_return) THEN One
    ELSE Zero

\* The result of the signal with the tracker t as it is after the call.
Signalled(t, signal) == [asset |-> "A", signal |-> signal, tracker |-> t]

Updated(t, kw) == Signalled(t, Threshold(t, kw))

\* Variant: only the two prices are checked before the tracker is updated.
SignalCallPricesOnly(t, kw, index, row) ==
    IF IsNaN(row.B) \/ IsNaN(row.A)
    THEN Signalled(t, Zero)
    ELSE Updated(TrackerCall(t, index, row.B), kw)

\* StdDevPairSignal.__call__(index, price_args): the asset, the signal and
\* the tracker after the call.
SignalCall(t, kw, index, row) ==
    IF IsNaN(row.B) \/ IsNaN(row.A) \/ IsNaN(t.std)
    THEN Signalled(t, Zero)
    ELSE Updated(TrackerCall(t, index, row.B), kw)

\* ------------------------------------------------ FuturesStdPairStrategy
\* Variant: a short order carries the short size without the signal's sign.
OrderForUnsigned(std_signal, kw) ==
    IF Eq(std_signal, One) THEN Size(Mul(kw.long_size, std_signal))
    ELSE IF Eq(std_signal, Neg(One)) THEN Size(kw.short_size)
    ELSE Close

\* The order for a signal.
OrderFor(std_signal, kw) ==
    IF Eq(std_signal, One) THEN Size(Mul(kw.long_size, std_signal))
    ELSE IF Eq(std_signal, Neg(One)) THEN Size(Mul(kw.short_size, std_signal))
    ELSE Close

\* The strategy's result for the signal's result s.
Ordered(s, kw) ==
    [asset |-> s.asset, trade_size |-> OrderFor(s.signal, kw),
     std_signal |-> s.signal, tracker |-> s.tracker]

\* FuturesStdPairStrategy.__call__(index, price_args).
StrategyCall(t, kw, index, row) == Ordered(SignalCall(t, kw, index, row), kw)

\* -------------------------------------------------------------- Backtest
VARIABLES
    kwargs,        \* the keyword arguments of the construction
    strategy_arg,  \* the strategy argument: a name or "instance"
    tracker,       \* strategy.stdsignal.tracker
    self,          \* the Backtest instance: ledger and series
    dataset,       \* the price table: fixed in advance (a sequence of rows),
                   \* or an input read row by row of which nothing is known
    i,             \* number of rows the loop has processed
    std_signal,    \* strategy local: the signal of the last processed row
    trade_size,    \* loop local: the order of the last processed row
    price,         \* loop local: row[asset] of the last processed row
    pc,            \* "loop" inside the for loop, "done" after it
    run,           \* 1 in the first construction, 2 in the second
    first,         \* the series the first construction produced
    call           \* the last call made on the signal or the tracker from
                   \* outside the loop, with its arguments

vars == <<kwargs, strategy_arg, tracker, self, dataset, i, std_signal,
          trade_size, price, pc, run, first, call>>

\* The attributes set before the loop.  day_return is first assigned in the
\* loop; NaN stands for the unset attribute.
BacktestInit(cash) ==
    [initial_value |-> cash, cash |-> cash, position_value |-> Zero,
     position_size |-> Zero, prev_price |-> NaN, day_return |-> NaN,
     max_value |-> cash, pnl |-> <<>>, drawdown |-> <<>>]

\* Variant: a previous price of 0 is divided by.
DayReturnDivides(prev_price, p) ==
    IF IsNaN(p) \/ IsNaN(prev_price) THEN Zero
    ELSE Sub(Div(p, prev_price), One)

DayReturn(prev_price, p) ==
    IF Eq(prev_price, Zero) \/ IsNaN(p) \/ IsNaN(prev_price) THEN Zero
    ELSE Sub(Div(p, prev_price), One)

\* position_value += position_value * day_return * position_size
MarkToMarket(position_value, day_return, position_size) ==
    Add(position_value, Mul(Mul(position_value, day_return), position_size))

\* Variant: a close with nothing to close is free.
CloseCashIfHeld(cash, position_value, t_cost) ==
    IF Eq(position_value, Zero) THEN cash
    ELSE Sub(Add(cash, position_value), t_cost)

\* Variant: a close that charges no cost.
CloseCashNoCost(cash, position_value, t_cost) == Add(cash, position_value)

\* cash += position_value - t_cost
CloseCash(cash, position_value, t_cost) == Add(cash, Sub(position_value, t_cost))

\* Variant: the affordability test leaves out the notional.
CanAffordCostOnly(cash, size, p, t_cost) == Leq(t_cost, cash)

\* cash >= abs(trade_size)*price + t_cost
CanAfford(cash, size, p, t_cost) == Leq(Add(Mul(AbsR(size), p), t_cost), cash)

\* Variant: the cost is debited on top of the notional.
OpenCashCostOnTop(cash, size, p, t_cost) ==
    Sub(cash, Add(Mul(AbsR(size), p), t_cost))

\* cash -= abs(trade_size)*price - t_cost
OpenCash(cash, size, p, t_cost) == Sub(cash, Sub(Mul(AbsR(size), p), t_cost))

\* Variant: a close also brings position_size back to 0.
ApplyOrderFlat(s, order, p, t_cost) ==
    IF order.kind = "close"
    THEN [s EXCEPT !.cash = CloseCash(s.cash, s.position_value, t_cost),
                   !.position_value = Zero,
                   !.position_size = Zero]
    ELSE IF CanAfford(s.cash, order.size, p, t_cost)
    THEN [s EXCEPT !.cash = OpenCash(s.cash, order.size, p, t_cost),
                   !.position_size = Add(s.position_size, order.size),
                   !.position_value = Add(s.position_value, Mul(order.size, p))]
    ELSE s

\* The order step on the ledger s, whose position is already revalued.
ApplyOrder(s, order, p, t_cost) ==
    IF order.kind = "close"
    THEN [s EXCEPT !.cash = CloseCash(s.cash, s.position_value, t_cost),
                   !.position_value = Zero]
    ELSE IF CanAfford(s.cash, order.size, p, t_cost)
    THEN [s EXCEPT !.cash = OpenCash(s.cash, order.size, p, t_cost),
                   !.position_size = Add(s.position_size, order.size),
                   !.position_value = Add(s.position_value, Mul(order.size, p))]
    ELSE s

PeakValue(max_value, profit) == Max(max_value, profit)

DrawdownOf(max_value, total_value) == Div(Sub(max_value, total_value), max_value)

\* Variant: the PnL entry is the profit, not the total value.
AppendedProfit(s, total_value, max_value) ==
    [s EXCEPT !.pnl = Append(s.pnl, Sub(total_value, s.initial_value)),
              !.max_value = max_value,
              !.drawdown = Append(s.drawdown, DrawdownOf(max_value, total_value))]

\* The day's entries appended, the peak updated.  With max_value = 0 the
\* division of line 89 raises ZeroDivisionError (the operands are Python
\* numbers), after the PnL entry and before the drawdown entry.
Appending(s, total_value, max_value) ==
    IF Eq(max_value, Zero)
    THEN [s EXCEPT !.pnl = Append(s.pnl, total_value),
                   !.max_value = max_value]
    ELSE [s EXCEPT !.pnl = Append(s.pnl, total_value),
                   !.max_value = max_value,
                   !.drawdown = Append(s.drawdown,
                                       DrawdownOf(max_value, total_value))]

Recording(s, total_value) ==
    Appending(s, total_value,
              PeakValue(s.max_value, Sub(total_value, s.initial_value)))

\* The PnL and drawdown entries of a day with a price.
Record(s) == Recording(s, Add(s.position_value, s.cash))

\* The mark-to-market step with the day's return.
Revalue(s, p, day_return) ==
    [s EXCEPT !.day_return = day_return,
              !.prev_price = p,
              !.position_value =
                  MarkToMarket(s.position_value, day_return, s.position_size)]

\* The loop body on a day whose price is present.
Settle(s, order, p, t_cost) ==
    Record(ApplyOrder(Revalue(s, p, DayReturn(s.prev_price, p)), order, p, t_cost))

\* Variant: a missing day appends no drawdown entry.
MissingNoDrawdown(s) ==
    [s EXCEPT !.pnl = Append(s.pnl, Add(s.position_value, s.cash))]

\* Variant: a missing day carries the previous drawdown forward.
MissingCarryDrawdown(s) ==
    [s EXCEPT !.pnl = Append(s.pnl, Add(s.position_value, s.cash)),
              !.drawdown = Append(s.drawdown,
                                  IF s.drawdown = <<>> THEN Zero
                                  ELSE s.drawdown[Len(s.drawdown)])]

\* The loop body on a day whose price is missing.
Missing(s) ==
    [s EXCEPT !.pnl = Append(s.pnl, Add(s.position_value, s.cash)),
              !.drawdown = Append(s.drawdown, Zero)]

\* The rows iterrows() can yield next: the next row of a fixed table, any
\* of the table's possible rows (up to MaxDays rows) when it is read as it
\* comes.
NextRows ==
    IF dataset.fixed
    THEN (IF i < Len(dataset.df) THEN {dataset.df[i + 1]} ELSE {})
    ELSE (IF i < MaxDays THEN dataset.rows ELSE {})

\* What the strategy answers for a row, from the current tracker.
Answer(row) == StrategyCall(tracker, kwargs, i + 1, row)

\* One iteration of the for loop over dataset.df.iterrows(), st being the
\* strategy's answer for the row.  pc becomes the exception the iteration
\* raises, if it raises one: the construction ends there.
Iterate(row, st) ==
    /\ tracker' = st.tracker
    /\ std_signal' = st.std_signal
    /\ trade_size' = st.trade_size
    /\ price' = row[st.asset]
    /\ self' = IF ~IsNaN(row[st.asset])
               THEN Settle(self, st.trade_size, row[st.asset], kwargs.C)
               ELSE Missing(self)
    /\ i' = i + 1
    /\ pc' = IF ~IsNaN(row[st.asset]) /\ Eq(self'.max_value, Zero)
             THEN "ZeroDivisionError"
             ELSE pc
    /\ UNCHANGED <<kwargs, strategy_arg, dataset, run, first, call>>

\* The branch of the loop body a row takes.
Branch(row, st) ==
    IF IsNaN(row[st.asset]) THEN "missing"
    ELSE IF st.trade_size.kind = "close" THEN "close"
    ELSE IF CanAfford(self.cash, st.trade_size.size, row[st.asset], kwargs.C)
         THEN "trade"
         ELSE "skip"

Day(branch, row, st) == Branch(row, st) = branch /\ Iterate(row, st)

\* The four actions below split the loop body by its branch.  The asset the
\* strategy names is always asset_a, so whether the day has a price is read
\* off row.A before the strategy is asked.

\* A day on which the traded asset has no price.
DayMissing ==
    /\ pc = "loop"
    /\ \E row \in NextRows : IsNaN(row.A) /\ Day("missing", row, Answer(row))

\* A day with a price on which the strategy orders a close.
DayClose ==
    /\ pc = "loop"
    /\ \E row \in NextRows : ~IsNaN(row.A) /\ Day("close", row, Answer(row))

\* A day with a price on which a numeric order is affordable.
DayTrade ==
    /\ pc = "loop"
    /\ \E row \in NextRows : ~IsNaN(row.A) /\ Day("trade", row, Answer(row))

\* A day with a price on which a numeric order is not affordable.
DaySkip ==
    /\ pc = "loop"
    /\ \E row \in NextRows : ~IsNaN(row.A) /\ Day("skip", row, Answer(row))

\* iterrows() is exhausted: the series become columns of results_df.
Finish ==
    /\ pc = "loop"
    /\ dataset.fixed => i = Len(dataset.df)
    /\ pc' = "done"
    /\ UNCHANGED <<kwargs, strategy_arg, tracker, self, dataset, i,
                   std_signal, trade_size, price, run, first, call>>

\* Backtest(dataset, strategy, cash, **kwargs) up to the loop, with a fresh
\* strategy; at is "loop", or "KeyError" when the match raised it.  The
\* ledger of a construction that raised stands for attributes never
\* assigned: it holds no entry.
Constructed(arg, kw, cash, data, at) ==
    /\ kwargs = kw
    /\ strategy_arg = arg
    /\ tracker = TrackerInit(kw.n_days)
    /\ self = BacktestInit(cash)
    /\ dataset = data
    /\ i = 0
    /\ std_signal = Zero
    /\ trade_size = Close
    /\ price = NaN
    /\ pc = at
    /\ run = 1
    /\ first = [pnl |-> <<>>, drawdown |-> <<>>]
    /\ call = [op |-> "none"]

Construct(arg, kw, cash, data) == Constructed(arg, kw, cash, data, "loop")

AsItComes == [fixed |-> FALSE, df |-> <<>>, rows |-> Rows]

Init == \E kw \in Kwargs, cash \in InitialCash, arg \in StrategyNames :
            Construct(arg, kw, cash, AsItComes)

Next == DayMissing \/ DayClose \/ DayTrade \/ DaySkip \/ Finish

Spec == Init /\ [][Next]_vars

\* ------------------------------------- any strategy argument, any cash
\* The match on strategy.lower(): a name no case takes raises KeyError.
Matched(arg) == IF Recognised(arg) THEN "loop" ELSE "KeyError"

InitConfig == \E kw \in Kwargs, cash \in ConfigCash, arg \in ConfigArgs :
                 Constructed(arg, kw, cash, AsItComes, Matched(arg))

SpecConfig == InitConfig /\ [][Next]_vars

\* ------------------------------------------------- a price can be zero
\* Rows in which the traded asset's price can be 0; two values of the
\* tracked asset are enough for orders of both signs.
PriceValuesZero == {0, 1, 2}
ZeroRows == [A : Prices(PriceValuesZero), B : Prices(PriceValuesA)]

InitZero == \E kw \in Kwargs, cash \in InitialCash, arg \in StrategyNames :
               Construct(arg, kw, cash,
                         [fixed |-> FALSE, df |-> <<>>, rows |-> ZeroRows])

SpecZero == InitZero /\ [][Next]_vars

\* ------------------------------------------------- two constructions
\* The price tables of at most MaxTable rows.
Tables == UNION {[1..k -> Rows] : k \in 0..MaxTable}

\* Backtest(dataset, strategy, cash, **kwargs) a second time with the same
\* arguments, up to the loop.  A strategy given by name is built anew
\* (FuturesStdPairStrategy(**kwargs)); a strategy instance is used as it is,
\* with the tracker the first construction left in it.
Reconstruct ==
    /\ pc = "done"
    /\ run = 1
    /\ run' = 2
    /\ first' = [pnl |-> self.pnl, drawdown |-> self.drawdown]
    /\ tracker' = IF strategy_arg \in StrategyNames
                  THEN TrackerInit(kwargs.n_days)
                  ELSE tracker
    /\ self' = BacktestInit(self.initial_value)
    /\ i' = 0
    /\ std_signal' = Zero
    /\ trade_size' = Close
    /\ price' = NaN
    /\ pc' = "loop"
    /\ UNCHANGED <<kwargs, strategy_arg, dataset, call>>

InitTwice == \E kw \in Kwargs, cash \in InitialCash, arg \in StrategyArgs,
                df \in Tables :
                Construct(arg, kw, cash, [fixed |-> TRUE, df |-> df])

NextTwice == DayMissing \/ DayClose \/ DayTrade \/ DaySkip \/ Finish
             \/ Reconstruct

SpecTwice == InitTwice /\ [][NextTwice]_vars

\* ------------------------------------------- signal and tracker called
\* The signal and its tracker as a caller of the classes can drive them:
\* StdDevPairSignal.__call__ with any row and Tracker.__call__ with any
\* price, missing prices included, in any order.  i counts the calls and is
\* the date of the next one; at most MaxDays calls are made.

\* Thresholds of either sign: with a negative threshold the rise check and
\* the drop check can both succeed.
SignalThresholds == {R(3), Neg(One)}
SignalKwargs ==
    [n_days : 1..MaxN, std_rise : SignalThresholds,
     std_drop : SignalThresholds, long_size : {R(DefaultSize)},
     short_size : {R(DefaultSize)}, C : {DefaultC}]

\* tracker(date, price), called directly.
TrackerUpdate ==
    /\ i < MaxDays
    /\ \E p \in Prices(PriceValuesB) :
          /\ tracker' = TrackerCall(tracker, i + 1, p)
          /\ call' = [op |-> "tracker", price |-> p]
    /\ i' = i + 1
    /\ UNCHANGED <<kwargs, strategy_arg, self, dataset, std_signal,
                   trade_size, price, pc, run, first>>

\* The signal's result s for the row taken over.
Evaluated(row, s) ==
    /\ tracker' = s.tracker
    /\ std_signal' = s.signal
    /\ call' = [op |-> "signal", row |-> row, asset |-> s.asset]

\* stdsignal(index, price_args), called directly.
SignalEvaluate ==
    /\ i < MaxDays
    /\ \E row \in Rows :
          Evaluated(row, SignalCall(tracker, kwargs, i + 1, row))
    /\ i' = i + 1
    /\ UNCHANGED <<kwargs, strategy_arg, self, dataset, trade_size, price,
                   pc, run, first>>

InitSignal == \E kw \in SignalKwargs, cash \in InitialCash :
                 Construct("instance", kw, cash, AsItComes)

NextSignal == TrackerUpdate \/ SignalEvaluate

SpecSignal == InitSignal /\ [][NextSignal]_vars

\* ================================================================ claims
\* A step of the loop: one more row has been processed.
DayStep == pc = "loop" /\ i' = i + 1

\* The claims' arithmetic, written out on the ledger s before the day, the
\* day's return, and the order's size and price.

\* position_value * (1 + day_return * position_size)
Revalued(s, day_return) ==
    Add(s.position_value,
        Mul(Mul(s.position_value, day_return), s.position_size))

\* |S|*P + C
Needed(size, p, t_cost) == Add(Mul(AbsR(size), p), t_cost)

\* cash_before + V - C
CashClosed(s, day_return, t_cost) ==
    Sub(Add(s.cash, Revalued(s, day_return)), t_cost)

\* cash_before - |S|*P + C
CashOpened(s, size, p, t_cost) == Add(Sub(s.cash, Mul(AbsR(size), p)), t_cost)

\* V + S*P
ValueOpened(s, day_return, size, p) == Add(Revalued(s, day_return), Mul(size, p))

Last(q) == q[Len(q)]

\* C1: after every day's settlement, with or without a price, the PnL entry
\* appended for the day equals cash + position_value of the ledger at the end
\* of the day.
C1_PnlIsCashPlusPosition ==
    i >= 1 => /\ Len(self.pnl) >= 1
              /\ Last(self.pnl) = Add(self.cash, self.position_value)

\* C1 witness: a missing-price day that follows a trade and a revaluation:
\* the position is open and worth something other than its notional.
C1_Witness ==
    /\ i >= 2
    /\ IsNaN(price)
    /\ ~Eq(self.position_size, Zero)
    /\ ~Eq(self.position_value, Zero)
    /\ ~Eq(self.position_value, Mul(self.position_size, self.prev_price))

\* C2 (as claimed): every drawdown entry lies in [0, 1] whenever
\* max_value > 0.
C2_DrawdownInUnitInterval ==
    Lt(Zero, self.max_value) =>
        \A k \in 1..Len(self.drawdown) :
            Leq(Zero, self.drawdown[k]) /\ Leq(self.drawdown[k], One)

\* C3: after k rows have been processed, with or without prices, the PnL
\* series and the drawdown series hold k entries each; when the pass
\* completes, i is the number of rows of the price table and both lengths
\* equal it.
C3_SeriesLength ==
    /\ Len(self.pnl) = i
    /\ Len(self.drawdown) = i

\* C3 witness: a completed pass over a table of MaxDays rows that ends with a
\* missing-price day and in which an order was executed.
C3_Witness ==
    /\ pc = "done"
    /\ i = MaxDays
    /\ IsNaN(price)
    /\ ~Eq(self.position_size, Zero)

\* C4: a close on a day with a price ends the day with
\* cash = cash_before + V - C and position_value = 0, V being the position
\* value after that day's mark-to-market.
C4_Close ==
    [][(DayStep /\ ~IsNaN(price') /\ trade_size'.kind = "close") =>
         /\ self'.cash = CashClosed(self, self'.day_return, kwargs.C)
         /\ self'.position_value = Zero]_vars

\* C4 witness: a close of a position whose value had moved that day: the
\* total value changed by something other than the cost.
C4_Witness ==
    /\ i >= 2
    /\ ~IsNaN(price)
    /\ trade_size.kind = "close"
    /\ Eq(self.position_value, Zero)
    /\ ~Eq(self.pnl[i], Sub(self.pnl[i - 1], kwargs.C))

\* C5: an affordable numeric order of signed size S at price P executes with
\* cash = cash_before - |S|*P + C, position_size increased by S and
\* position_value increased by S*P on top of its marked-to-market value.
C5_Open ==
    [][(DayStep /\ ~IsNaN(price') /\ trade_size'.kind = "size"
        /\ Leq(Needed(trade_size'.size, price', kwargs.C), self.cash)) =>
         /\ self'.cash = CashOpened(self, trade_size'.size, price', kwargs.C)
         /\ self'.position_size = Add(self.position_size, trade_size'.size)
         /\ self'.position_value =
                ValueOpened(self, self'.day_return, trade_size'.size, price')]_vars

\* C5 witness: the second of two executed orders (no order can come before
\* day n_days + 2), on top of a position that was revalued the same day: the
\* value is not size times price.
C5_Witness ==
    /\ i = kwargs.n_days + 3
    /\ ~IsNaN(price)
    /\ trade_size.kind = "size"
    /\ Eq(self.position_size, Add(trade_size.size, trade_size.size))
    /\ ~Eq(self.day_return, Zero)
    /\ ~Eq(self.position_value, Mul(self.position_size, price))

\* C6 (as claimed): on every day that starts before the window has reached
\* capacity N, mean, variance and signal are NaN and the strategy emits close.
C6_WarmupNaN ==
    [][(DayStep /\ Len(tracker.price_window) < kwargs.n_days) =>
         /\ IsNaN(tracker'.moving_average)
         /\ IsNaN(tracker'.std)
         /\ IsNaN(std_signal')
         /\ trade_size' = Close]_vars

\* C6 (amended): on every day that starts before the window has reached
\* capacity N, mean and variance keep their initial value 0, the signal is 0
\* and the strategy emits close.
C6_WarmupZero ==
    [][(DayStep /\ Len(tracker.price_window) < kwargs.n_days) =>
         /\ tracker'.moving_average = Zero
         /\ tracker'.std = Zero
         /\ std_signal' = Zero
         /\ trade_size' = Close]_vars

\* C6 witness: a warm-up day with both prices present has been processed:
\* the window holds a price and the statistics have never been computed.
C6_Witness ==
    /\ i >= 1
    /\ ~IsNaN(price)
    /\ Len(tracker.price_window) >= 1
    /\ tracker.prev_date = 0
    /\ trade_size = Close

\* C7 (as claimed): a second construction with identical inputs produces the
\* series of the first, for a strategy given by name and for a strategy
\* instance passed to both.
C7_SameSeries ==
    (run = 2 /\ pc = "done") =>
        /\ self.pnl = first.pnl
        /\ self.drawdown = first.drawdown

\* C8: a day without a price appends cash + position_value (the previous PnL
\* entry, or the initial cash on the first day) to the PnL series and 0 to
\* the drawdown series, and leaves cash, position_value, position_size,
\* max_value and prev_price unchanged.
C8_MissingDay ==
    [][(DayStep /\ IsNaN(price')) =>
         /\ self'.pnl = Append(self.pnl, Add(self.cash, self.position_value))
         /\ Last(self'.pnl) = IF i = 0 THEN self.initial_value ELSE Last(self.pnl)
         /\ self'.drawdown = Append(self.drawdown, Zero)
         /\ self'.cash = self.cash
         /\ self'.position_value = self.position_value
         /\ self'.position_size = self.position_size
         /\ self'.max_value = self.max_value
         /\ self'.prev_price = self.prev_price]_vars

\* C8 witness: a missing-price day right after a day with a nonzero
\* drawdown, with a position held.
C8_Witness ==
    /\ i >= 2
    /\ IsNaN(price)
    /\ ~Eq(self.position_value, Zero)
    /\ ~Eq(self.drawdown[i - 1], Zero)
    /\ Eq(self.drawdown[i], Zero)

\* C9: an unaffordable numeric order trades nothing: cash and position_size
\* are unchanged, position_value changes by the mark-to-market only, and the
\* day's PnL and drawdown entries are appended.
C9_InsufficientCash ==
    [][(DayStep /\ ~IsNaN(price') /\ trade_size'.kind = "size"
        /\ Lt(self.cash, Needed(trade_size'.size, price', kwargs.C))) =>
         /\ self'.cash = self.cash
         /\ self'.position_size = self.position_size
         /\ self'.position_value = Revalued(self, self'.day_return)
         /\ Len(self'.pnl) = Len(self.pnl) + 1
         /\ Last(self'.pnl) = Add(self'.cash, self'.position_value)
         /\ Len(self'.drawdown) = Len(self.drawdown) + 1]_vars

\* C9 witness: a numeric order on a day with a price and no return that left
\* the total value as it was: it was skipped (an executed order changes the
\* total by C or by C - 2*|S|*P).
C9_Witness ==
    /\ i >= 2
    /\ ~IsNaN(price)
    /\ trade_size.kind = "size"
    /\ Eq(self.day_return, Zero)
    /\ Eq(self.pnl[i], self.pnl[i - 1])
    /\ Lt(self.cash, Needed(trade_size.size, price, kwargs.C))

\* C10 (as claimed): after a day's settlement position_value = 0 if and only
\* if position_size = 0.
C10_ZeroTogether ==
    i >= 1 => (Eq(self.position_value, Zero) <=> Eq(self.position_size, Zero))

\* C11 (as claimed): an unrecognised strategy name makes the construction
\* fail with the configuration error (KeyError) before any day is processed,
\* with no PnL or drawdown entry; a construction with a recognised strategy
\* raises no error.
C11_OnlyConfigurationError ==
    /\ ~Recognised(strategy_arg) =>
           /\ pc = "KeyError"
           /\ i = 0
           /\ self.pnl = <<>>
           /\ self.drawdown = <<>>
    /\ Recognised(strategy_arg) => pc \in {"loop", "done"}

\* A step of the signal and tracker called directly: one more call.
CallStep == i' = i + 1

\* The call c was a signal call on a row without one of its prices.
PriceMissing(c) == c.op = "signal" /\ (IsNaN(c.row.A) \/ IsNaN(c.row.B))

\* The call c was a signal call on a row with both prices.
PricesPresent(c) == c.op = "signal" /\ ~IsNaN(c.row.A) /\ ~IsNaN(c.row.B)

\* C12: whenever the primary or the secondary asset's price is missing, or
\* the tracker's variance is undefined, the signal returns the primary asset
\* with signal 0 and leaves the whole tracker (window, mean, variance, day
\* return, previous price, previous date) as it was.
C12_NoSignalNoUpdate ==
    [][(CallStep /\ (PriceMissing(call')
                     \/ (call'.op = "signal" /\ IsNaN(tracker.std)))) =>
         /\ call'.asset = "A"
         /\ std_signal' = Zero
         /\ tracker' = tracker]_vars

\* C12 witness: the signal was called with both prices on a tracker whose
\* variance is undefined and whose statistics had been computed before.
C12_Witness ==
    /\ PricesPresent(call)
    /\ IsNaN(tracker.std)
    /\ tracker.prev_date >= 1
    /\ tracker.prev_date < i
    /\ std_signal = Zero

\* C13: the strategy turns signal +1 into the numeric order +long_size,
\* signal -1 into the numeric order -short_size and signal 0 into close, and
\* emits no other order.
C13_SignalToOrder ==
    i >= 1 =>
        \/ Eq(std_signal, One) /\ trade_size = Size(kwargs.long_size)
        \/ Eq(std_signal, Neg(One)) /\ trade_size = Size(Neg(kwargs.short_size))
        \/ Eq(std_signal, Zero) /\ trade_size = Close

\* C13 witness: a day on which the signal was -1 and the order a short.
C13_Witness ==
    /\ i >= 1
    /\ Eq(std_signal, Neg(One))
    /\ trade_size.kind = "size"
    /\ Lt(trade_size.size, Zero)

\* The profit of a PnL entry.
Profit(total_value, initial_value) == Sub(total_value, initial_value)

\* C16 (as claimed): after each settled day max_value is the maximum of
\* total_value - initial_value over the days settled so far.
C16_PeakOfProfit ==
    i >= 1 =>
        /\ \A k \in 1..Len(self.pnl) :
               Leq(Profit(self.pnl[k], self.initial_value), self.max_value)
        /\ \E k \in 1..Len(self.pnl) :
               Eq(Profit(self.pnl[k], self.initial_value), self.max_value)

\* The order of the day was executed: a numeric order on a day with a price,
\* affordable from the cash before.
Executed(cash, order, p, t_cost) ==
    /\ ~IsNaN(p)
    /\ order.kind = "size"
    /\ Leq(Needed(order.size, p, t_cost), cash)

ExecutedSize(cash, order, p, t_cost) ==
    IF Executed(cash, order, p, t_cost) THEN order.size ELSE Zero

\* C18: position_size is the sum of the signed sizes of all executed numeric
\* orders since the start: it starts at 0, an executed order adds its size,
\* and every other day, a close included, leaves it as it is.
C18_SizeIsSumOfExecuted ==
    /\ self.position_size = Zero
    /\ [][DayStep =>
             self'.position_size =
                 Add(self.position_size,
                     ExecutedSize(self.cash, trade_size', price',
                                  kwargs.C))]_vars

\* C18 witness: an order executed after a close that followed an earlier
\* order: the position's value is that of the last order alone, its size
\* counts both.
C18_Witness ==
    /\ i >= 3
    /\ ~IsNaN(price)
    /\ trade_size.kind = "size"
    /\ Eq(self.position_value, Mul(trade_size.size, price))
    /\ Eq(self.position_size, Add(trade_size.size, trade_size.size))

\* C20: a close on a day with a price and no position held debits the cost
\* all the same: cash and the total value (the PnL entry) each end the day
\* lower by exactly C; d such days in a row lower the PnL by d * C.
C20_IdleCloseCosts ==
    [][(DayStep /\ ~IsNaN(price') /\ trade_size' = Close
        /\ Eq(self.position_value, Zero)) =>
         /\ self'.cash = Sub(self.cash, kwargs.C)
         /\ Last(self'.pnl) =
                Sub(IF i = 0 THEN self.initial_value ELSE Last(self.pnl),
                    kwargs.C)]_vars

\* C20 witness: three days with a price, a close and no position, one after
\* the other from the start: the PnL has fallen by 3 * C.
C20_Witness ==
    /\ i = 3
    /\ Eq(self.position_size, Zero)
    /\ \A k \in 1..3 :
           Eq(self.pnl[k], Sub(self.initial_value, Mul(R(k), kwargs.C)))

\* The call c reached the tracker's update: a direct call, or a signal call
\* with both prices on a tracker whose variance std was defined.
TrackerCalled(c, std) ==
    c.op = "tracker" \/ (PricesPresent(c) /\ ~IsNaN(std))

\* The price the call c passed to the tracker's update.
PassedPrice(c) == IF c.op = "tracker" THEN c.price ELSE c.row.B

\* The window after price p came in and the oldest price went out.
Slid(w, p) == Append(Tail(w), p)

\* Mean and variance over a window, undefined when a price of it is missing.
MeanOver(w) == IF AnyNaN(w) THEN NaN ELSE Mean(w)
VarianceOver(w) == IF AnyNaN(w) THEN NaN ELSE Variance(w)

\* C14 (as claimed): the window holds the N most recent prices passed to
\* the update, in order: an update that finds the window full evicts the
\* oldest price and takes the new one in, and mean and variance are those of
\* the N most recent prices.
C14_MostRecentPrices ==
    [][(CallStep /\ TrackerCalled(call', tracker.std)
        /\ Len(tracker.price_window) = kwargs.n_days) =>
         /\ tracker'.price_window =
                Slid(tracker.price_window, PassedPrice(call'))
         /\ tracker'.moving_average = MeanOver(tracker'.price_window)
         /\ tracker'.std = VarianceOver(tracker'.price_window)]_vars

\* The signal the claim names for a day return and a variance.
Decided(day_return, std, kw) ==
    IF Lt(day_return, Mul(Neg(std), kw.std_drop)) THEN Neg(One)
    ELSE IF Lt(Mul(std, kw.std_rise), day_return) THEN One
    ELSE Zero

\* C15: with both prices present and the variance defined, the signal
\* updates the tracker with the secondary asset's price and returns -1 if
\* day_return < -std * std_drop, otherwise +1 if std * std_rise < day_return,
\* otherwise 0 (the drop check comes second and overwrites); the signal of
\* any call is one of -1, 0, +1.
C15_ThresholdSignal ==
    [][/\ (CallStep /\ PricesPresent(call') /\ ~IsNaN(tracker.std)) =>
            /\ tracker' = TrackerCall(tracker, i + 1, call'.row.B)
            /\ std_signal' = Decided(tracker'.day_return, tracker'.std, kwargs)
       /\ (CallStep /\ call'.op = "signal") =>
            std_signal' \in {Neg(One), Zero, One}]_vars

\* C15 witness: a signal call that updated the tracker and returned -1 on a
\* day return that passed the rise check as well.
C15_Witness ==
    /\ PricesPresent(call)
    /\ tracker.prev_date = i
    /\ Lt(Mul(tracker.std, kwargs.std_rise), tracker.day_return)
    /\ Lt(tracker.day_return, Mul(Neg(tracker.std), kwargs.std_drop))
    /\ std_signal = Neg(One)

\* C19: after every call of the tracker's update, whatever the calls before
\* it, the window holds at most N prices.
C19_WindowAtMostN == Len(tracker.price_window) <= kwargs.n_days

\* C19 witness: a direct update found the window full: the statistics were
\* computed in this call, on a window of N prices.
C19_Witness ==
    /\ call.op = "tracker"
    /\ tracker.prev_date = i
    /\ i > kwargs.n_days
    /\ Len(tracker.price_window) = kwargs.n_days

\* The return of price p on the previous price with a price, as the claim
\* words it.
ReturnSince(prev_price, p) ==
    IF IsNaN(prev_price) \/ Eq(prev_price, Zero) THEN Zero
    ELSE Sub(Div(p, prev_price), One)

\* The position's value once the order is settled on the revalued amount.
ValueSettled(s, day_return, order, p, t_cost) ==
    IF order.kind = "close" THEN Zero
    ELSE Add(Revalued(s, day_return),
             Mul(ExecutedSize(s.cash, order, p, t_cost), p))

\* C17: on every day with a price the position is revalued before the
\* order: position_value becomes position_value * (1 + day_return *
\* position_size), day_return being the return on the most recent earlier
\* day with a price (prev_price starts undefined, follows the price on days
\* with one and stays on days without), and 0 on the first such day or when
\* that earlier price is 0; the order then settles on the revalued amount.
C17_RevaluedBeforeOrder ==
    /\ IsNaN(self.prev_price)
    /\ [][/\ (DayStep /\ ~IsNaN(price')) =>
               /\ self'.day_return = ReturnSince(self.prev_price, price')
               /\ self'.prev_price = price'
               /\ self'.position_value =
                      ValueSettled(self, self'.day_return, trade_size',
                                   price', kwargs.C)
               /\ trade_size'.kind = "close" =>
                      self'.cash = CashClosed(self, self'.day_return, kwargs.C)
          /\ (DayStep /\ IsNaN(price')) =>
               self'.prev_price = self.prev_price]_vars

\* C17 witness: a close on a day whose return is on the price of two days
\* before, the day between having no price (its PnL entry repeats, its
\* drawdown is 0), of a position whose revaluation moved the total value.
C17_Witness ==
    /\ i >= 3
    /\ ~IsNaN(price)
    /\ trade_size.kind = "close"
    /\ ~Eq(self.day_return, Zero)
    /\ ~Eq(self.position_size, Zero)
    /\ Eq(self.drawdown[i - 1], Zero)
    /\ Eq(self.pnl[i - 1], self.pnl[i - 2])
    /\ ~Eq(self.pnl[i], Sub(self.pnl[i - 1], kwargs.C))

====
